---------------------------- MODULE Spec2Model ----------------------------
(***************************************************************************)
(* A model of Programs/download_sec.py: the EDGAR filing downloader.       *)
(*                                                                         *)
(* Strings are sequences of one-character strings, so that upper(),        *)
(* sanitize(), replace() and rpartition() are computed character by        *)
(* character the way the program computes them.  A file's content and a    *)
(* response body are sequences of bytes.  The file system is a function    *)
(* from the paths that exist to their contents.                            *)
(*                                                                         *)
(* Specifications:                                                         *)
(*   SpecFetch   one call of _fetch against a scripted remote              *)
(*   SpecSelect  the filter, sort and cap of main over enumerated filings  *)
(*   SpecEnum    iter_filings_from_submissions over a history document     *)
(*   SpecConc    the per-filing download step run by concurrent workers,   *)
(*               _fetch taken statement by statement                       *)
(*   Spec        main from the enumerated filings on: selection, download  *)
(*               loop, and a second run over the same destination root     *)
(*   SpecName    one call of readable_basename                             *)
(***************************************************************************)
EXTENDS Integers, Sequences, FiniteSets, TLC

VARIABLES
    max_retries,  \* Retry(total=..., status=...) of the shared session
    remote,       \* url -> [script: the statuses it answers, in order; content: the body]
    fs,           \* path -> content, for the paths that exist
    netlog,       \* the urls of the GET requests put on the wire, in order
    wlog,         \* the paths opened for writing, in order
    pc,           \* where the program is
    call,         \* the arguments of the _fetch call in hand
    outcome,      \* how the last _fetch call ended
    args,         \* the parsed command line: forms, include_amendments, max_filings
    filings,      \* list(iter_filings_from_submissions(...))
    filtered,     \* selected, after the filter of main
    selected,     \* selected, after the sort and the cap: what the download loop gets
    idx,          \* the position of the download loop in selected
    progress,     \* the filings announced by "[i] Downloading ...", in order
    total_saved,  \* total_saved of main
    run,          \* 1 in the first run of the program, 2 in the second
    fs1,          \* the file system as the first run left it
    submissions,  \* the filing-history document: recent (four arrays) and files (manifest)
    yielded,      \* what iter_filings_from_submissions has yielded so far
    chunk_i,      \* the position of the enumerator in the manifest
    workers,      \* worker -> its filing and its place in download_one_filing / _fetch
    basename_args,\* the arguments of the readable_basename call in hand
    basename      \* what readable_basename returned

fetchVars == <<max_retries, remote, fs, netlog, wlog, call, outcome>>

selectVars == <<args, filings, filtered, selected>>

loopVars == <<idx, progress, total_saved>>

runVars == <<run, fs1>>

enumVars == <<submissions, yielded, chunk_i>>

nameVars == <<basename_args, basename>>

vars == <<max_retries, remote, fs, netlog, wlog, pc, call, outcome,
          args, filings, filtered, selected, idx, progress, total_saved, run, fs1,
          submissions, yielded, chunk_i, workers, basename_args, basename>>

-----------------------------------------------------------------------------
(* Bounds *)

\* args.retries ranges over 0..MaxRetries
MaxRetries == 2

\* the longest list of enumerated filings handed to the selection
MaxSel == 3

\* the longest list of enumerated filings in a whole run of main
MaxFilings == 2

\* the longest array of the recent page
MaxRecent == 2

\* the longest manifest of overflow pages
MaxPages == 2

\* the number of concurrent download workers
NumWorkers == 2

\* the longest form handed to readable_basename, besides the sample forms
MaxFormLen == 3

-----------------------------------------------------------------------------
(* Small helpers *)

Min(a, b) == IF a < b THEN a ELSE b

Max(a, b) == IF a > b THEN a ELSE b

-----------------------------------------------------------------------------
(* Strings *)

LowerCase == <<"a", "b", "c", "d", "e", "f", "g", "h", "i", "j", "k", "l", "m",
               "n", "o", "p", "q", "r", "s", "t", "u", "v", "w", "x", "y", "z">>

UpperCase == <<"A", "B", "C", "D", "E", "F", "G", "H", "I", "J", "K", "L", "M",
               "N", "O", "P", "Q", "R", "S", "T", "U", "V", "W", "X", "Y", "Z">>

Digits == <<"0", "1", "2", "3", "4", "5", "6", "7", "8", "9">>

\* The characters of the model in code point order, as Python compares them.
CodePoints == <<"-", ".", "/">> \o Digits \o UpperCase \o <<"_">> \o LowerCase

Range(seq) == {seq[i] : i \in DOMAIN seq}

\* ord(c)
OrdOf == [c \in Range(CodePoints) |-> CHOOSE i \in DOMAIN CodePoints : CodePoints[i] = c]

Ord(c) == OrdOf[c]

\* c.upper() for every character of the model
UpperOf ==
    [c \in Range(CodePoints) |->
        IF c \in Range(LowerCase)
        THEN UpperCase[CHOOSE i \in DOMAIN LowerCase : LowerCase[i] = c]
        ELSE c]

\* str.upper, one character
UpperChar(c) == UpperOf[c]

\* str.upper
Upper(str) == [i \in DOMAIN str |-> UpperChar(str[i])]

\* a < b for str: lexicographic by code point, a proper prefix first
RECURSIVE StrLess(_, _)
StrLess(a, b) ==
    IF b = <<>> THEN FALSE
    ELSE IF a = <<>> THEN TRUE
    ELSE IF a[1] # b[1] THEN Ord(a[1]) < Ord(b[1])
    ELSE StrLess(Tail(a), Tail(b))

\* [A-Za-z0-9._-]
SafeChars == Range(LowerCase) \cup Range(UpperCase) \cup Range(Digits) \cup {".", "_", "-"}

IsSafeChar(c) == c \in SafeChars

\* The string without its longest prefix of characters outside [A-Za-z0-9._-]
RECURSIVE DropUnsafe(_)
DropUnsafe(str) ==
    IF str # <<>> /\ ~IsSafeChar(str[1]) THEN DropUnsafe(Tail(str)) ELSE str

SanitizeNoPlus(str) == [i \in DOMAIN str |-> IF IsSafeChar(str[i]) THEN str[i] ELSE "_"]

\* re.sub(r"[^A-Za-z0-9._-]+", "_", s): every maximal run of characters
\* outside the class becomes one underscore
RECURSIVE Sanitize(_)
Sanitize(str) ==
    IF str = <<>> THEN <<>>
    ELSE IF IsSafeChar(str[1]) THEN <<str[1]>> \o Sanitize(Tail(str))
    ELSE <<"_">> \o Sanitize(DropUnsafe(str))

\* str.replace(old, new) for a one-character old and new
ReplaceChar(str, old, new) == [i \in DOMAIN str |-> IF str[i] = old THEN new ELSE str[i]]

\* str.replace(old, "") for a one-character old
RemoveChar(str, old) == SelectSeq(str, LAMBDA c : c # old)

\* str.rpartition(sep) for a one-character sep: (head, sep, tail) around the
\* last sep, or ("", "", str) when there is none
RPartition(str, sep) ==
    LET at == {i \in DOMAIN str : str[i] = sep} IN
    IF at = {} THEN [head |-> <<>>, sep |-> <<>>, tail |-> str]
    ELSE LET k == CHOOSE i \in at : \A j \in at : j <= i IN
         [head |-> SubSeq(str, 1, k - 1), sep |-> <<sep>>,
          tail |-> SubSeq(str, k + 1, Len(str))]

\* str(int(cik)): the decimal digits without leading zeros
RECURSIVE StripLeadingZeros(_)
StripLeadingZeros(str) ==
    IF Len(str) > 1 /\ str[1] = "0" THEN StripLeadingZeros(Tail(str)) ELSE str

\* os.path.join(a, b) for a relative b
PathJoin(a, b) == a \o <<"/">> \o b

\* urljoin(base, name) for a base ending in "/" and a plain relative name
UrlJoin(base, name) == base \o name

-----------------------------------------------------------------------------
(* The HTTP session: requests + urllib3 Retry, as configured by            *)
(* create_session.  Responses carry no Retry-After header in this model    *)
(* (the header only changes how long a retry sleeps for the statuses       *)
(* below); connection-level failures are not modelled.                     *)

\* status_forcelist=(429, 500, 502, 503, 504)
StatusForcelist == {429, 500, 502, 503, 504}

\* The statuses the remote answers with in this model: success, a
\* non-retried client error, not found, and 5xx/429 inside and outside the
\* forcelist.
Statuses == {200, 403, 404, 429, 501, 503}

\* Retry(total=max_retries, status=max_retries, ...)
NewRetry(n) == [total |-> n, status |-> n]

\* Retry.is_retry for a GET (allowed_methods) without Retry-After
IsRetry(status) == status \in StatusForcelist

\* Retry.increment on a response: total and status counters go down by one
Increment(retry) == [total |-> retry.total - 1, status |-> retry.status - 1]

IsExhaustedOffByOne(retry) == Min(retry.total, retry.status) <= 0

\* Retry.is_exhausted: some counter fell below zero
IsExhausted(retry) == Min(retry.total, retry.status) < 0

\* The i-th answer of a remote script; the last one repeats for ever.
Answer(script, i) == script[Min(i, Len(script))]

\* HTTPConnectionPool.urlopen under the Retry above, raise_on_status=False:
\* a forcelist status is retried until the Retry is exhausted, and then the
\* last response is returned, not raised.  i is the number of the request.
RECURSIVE Urlopen(_, _, _)
Urlopen(script, i, retry) ==
    LET status == Answer(script, i) IN
    IF IsRetry(status) /\ ~IsExhausted(Increment(retry))
    THEN Urlopen(script, i + 1, Increment(retry))
    ELSE [status_code |-> status, requests |-> i]

\* session.get(url): the final response and the number of requests it took
SessionGet(url) == Urlopen(remote[url].script, 1, NewRetry(max_retries))

\* Response.raise_for_status raises HTTPError for 4xx and 5xx
RaisesForStatus(status) == status >= 400 /\ status < 600

-----------------------------------------------------------------------------
(* _fetch *)

AlreadyPresentNever(fsv, path) == FALSE

NoSizeCheckOffByOne(fsv, path) == path \in DOMAIN fsv /\ Len(fsv[path]) > 1

AlreadyPresentInverted(fsv, path) == path \in DOMAIN fsv /\ Len(fsv[path]) = 0

\* os.path.exists(path) and os.path.getsize(path) > 0
AlreadyPresent(fsv, path) == path \in DOMAIN fsv /\ Len(fsv[path]) > 0

NotFoundSkipNever(status, ok_404) == FALSE

\* r.status_code == 404 and ok_404
NotFoundSkip(status, ok_404) == status = 404 /\ ok_404

Repeat(x, n) == [i \in 1..n |-> x]

\* One call of _fetch on file system fsv.  Returns the file system after
\* the call, the urls requested, the paths written, and how the call ended:
\* "present" (idempotent return), "skip404", "written", or "raise" with the
\* status raise_for_status raised on.
Fetch(fsv, url, path, ok_404) ==
    IF AlreadyPresent(fsv, path)
    THEN [fs |-> fsv, gets |-> <<>>, writes |-> <<>>, end |-> "present", status |-> 0]
    ELSE LET r == SessionGet(url)
             gets == Repeat(url, r.requests)
         IN  IF NotFoundSkip(r.status_code, ok_404)
             THEN [fs |-> fsv, gets |-> gets, writes |-> <<>>,
                   end |-> "skip404", status |-> r.status_code]
             ELSE IF RaisesForStatus(r.status_code)
             THEN [fs |-> fsv, gets |-> gets, writes |-> <<>>,
                   end |-> "raise", status |-> r.status_code]
             ELSE [fs |-> (path :> remote[url].content) @@ fsv, gets |-> gets,
                   writes |-> <<path>>, end |-> "written", status |-> r.status_code]

-----------------------------------------------------------------------------
(* SpecFetch: one call of _fetch.  The remote's script, the state of the   *)
(* destination, ok_404 and the retry budget are drawn in the initial       *)
(* state.                                                                  *)

FetchUrl == <<"u">>

FetchPath == <<"p">>

\* Every script of MaxRetries+1 answers (the last repeats).
Scripts == [1..(MaxRetries + 1) -> Statuses]

\* Response bodies and earlier file contents: empty, or some bytes.
Contents == {<<>>, <<"x">>, <<"x", "y">>}

InitFetch ==
    /\ \E retries \in 0..MaxRetries : max_retries = Max(1, retries)
    /\ \E s \in Scripts, c \in Contents :
           remote = (FetchUrl :> [script |-> s, content |-> c])
    /\ \/ fs = <<>>
       \/ \E old \in {<<>>, <<"o">>} : fs = (FetchPath :> old)
    /\ netlog = <<>>
    /\ wlog = <<>>
    /\ pc = "fetch"
    /\ \E ok \in BOOLEAN : call = [url |-> FetchUrl, path |-> FetchPath, ok_404 |-> ok]
    /\ outcome = [end |-> "none", status |-> 0]
    /\ args = [forms |-> {}, include_amendments |-> FALSE, max_filings |-> 0]
    /\ filings = <<>>
    /\ filtered = <<>>
    /\ selected = <<>>
    /\ idx = 1
    /\ progress = <<>>
    /\ total_saved = 0
    /\ run = 1
    /\ fs1 = <<>>
    /\ basename_args = [form |-> <<>>, date_str |-> <<>>, ext |-> <<>>]
    /\ basename = <<>>
    /\ submissions = [recent |-> <<>>, files |-> <<>>]
    /\ yielded = <<>>
    /\ chunk_i = 1
    /\ workers = <<>>

\* The call itself.
FetchCall ==
    /\ pc = "fetch"
    /\ LET f == Fetch(fs, call.url, call.path, call.ok_404) IN
         /\ fs' = f.fs
         /\ netlog' = netlog \o f.gets
         /\ wlog' = wlog \o f.writes
         /\ outcome' = [end |-> f.end, status |-> f.status]
         /\ pc' = IF f.end = "raise" THEN "raised" ELSE "returned"
    /\ UNCHANGED <<max_retries, remote, call>>
    /\ UNCHANGED selectVars
    /\ UNCHANGED loopVars
    /\ UNCHANGED runVars
    /\ UNCHANGED nameVars
    /\ UNCHANGED enumVars
    /\ UNCHANGED workers

NextFetch == FetchCall

SpecFetch == InitFetch /\ [][NextFetch]_vars

-----------------------------------------------------------------------------
(* Claims about one call of _fetch (SpecFetch) *)

\* C1: a call of _fetch whose destination exists and is non-empty returns
\* without putting any GET on the wire and without writing anything,
\* whatever the url and whatever the remote would have answered.
C1_PresentIsNoOp ==
    [][(pc = "fetch" /\ call.path \in DOMAIN fs /\ Len(fs[call.path]) > 0)
         => (pc' = "returned" /\ netlog' = netlog /\ wlog' = wlog /\ fs' = fs)]_vars

\* C1 witness: the call returned on a non-empty destination although the
\* remote would have answered 200 with a different body.
C1_Witness ==
    /\ pc = "returned"
    /\ outcome.end = "present"
    /\ remote[call.url].script[1] = 200
    /\ remote[call.url].content # fs[call.path]
    /\ netlog = <<>>

\* Every answer of the script is in the set of statuses S.
AllAnswersIn(S) ==
    \A i \in 1..Len(remote[call.url].script) : remote[call.url].script[i] \in S

\* The fetch went to the network (the destination was absent or empty).
WentToNetwork == pc # "fetch" /\ outcome.end # "present"

TransientThen404(S) ==
    \E k \in 0..max_retries :
        /\ k + 1 <= Len(remote[call.url].script)
        /\ \A i \in 1..k : remote[call.url].script[i] \in S
        /\ remote[call.url].script[k + 1] = 404

\* The call returned normally and wrote nothing.
ReturnedUnwritten ==
    /\ pc = "returned"
    /\ outcome.end \in {"skip404", "present"}
    /\ wlog = <<>>

-----------------------------------------------------------------------------
(* main: the wanted forms, the filter, the sort and the cap *)

\* forms_wanted = set([f.upper() for f in args.forms]);
\* if include_amends: forms_wanted |= {f + "/A" for f in list(forms_wanted)}
FormsWanted(forms, include_amends) ==
    LET base == {Upper(f) : f \in forms} IN
    IF include_amends THEN base \cup {f \o <<"/", "A">> : f \in base} ELSE base

IsWantedCaseSensitive(f, forms_wanted) == f.form \in forms_wanted

\* f.get("form", "").upper() in forms_wanted
IsWanted(f, forms_wanted) == Upper(f.form) \in forms_wanted

\* [f for f in filings if ...]
Filter(fl, forms_wanted) == SelectSeq(fl, LAMBDA f : IsWanted(f, forms_wanted))

MovesBeforeOrEqual(x, y) == ~StrLess(y.filingDate, x.filingDate)

\* list.sort(key=lambda f: f.get("filingDate", "")) is stable: an element
\* moves in front of another only when its key is strictly smaller.
MovesBefore(x, y) == StrLess(x.filingDate, y.filingDate)

\* x put into the sorted list s where the stable sort puts a later element
RECURSIVE Insert(_, _)
Insert(s, x) ==
    IF s = <<>> THEN <<x>>
    ELSE LET last == s[Len(s)] IN
         IF MovesBefore(x, last)
         THEN Append(Insert(SubSeq(s, 1, Len(s) - 1), x), last)
         ELSE Append(s, x)

\* selected.sort(key=...)
RECURSIVE SortByDate(_)
SortByDate(s) ==
    IF s = <<>> THEN <<>>
    ELSE Insert(SortByDate(SubSeq(s, 1, Len(s) - 1)), s[Len(s)])

\* if args.max_filings and args.max_filings > 0: selected = selected[:args.max_filings]
Cap(s, max_filings) ==
    IF max_filings # 0 /\ max_filings > 0
    THEN SubSeq(s, 1, Min(max_filings, Len(s)))
    ELSE s

\* main, from the enumerated filings to the list the download loop gets
MainSelect ==
    /\ pc = "select"
    /\ LET forms_wanted == FormsWanted(args.forms, args.include_amendments) IN
         /\ filtered' = Filter(filings, forms_wanted)
         /\ selected' = Cap(SortByDate(Filter(filings, forms_wanted)), args.max_filings)
    /\ total_saved' = 0
    /\ idx' = 1
    /\ pc' = "loop"
    /\ UNCHANGED <<args, filings, progress>>
    /\ UNCHANGED fetchVars
    /\ UNCHANGED runVars
    /\ UNCHANGED nameVars
    /\ UNCHANGED enumVars
    /\ UNCHANGED workers

-----------------------------------------------------------------------------
(* SpecSelect: the selection step over every short list of filings.        *)

\* Sequences over S of length at most n
SeqsUpTo(S, n) == UNION {[1..k -> S] : k \in 0..n}

SelForms == {<<"K">>, <<"k">>, <<"K", "/", "A">>, <<"Q">>}

SelDates == {<<"0", "2">>, <<"1", "0">>}

SelRecords ==
    [form : SelForms, accessionNumber : {<<"a", "-", "1">>},
     filingDate : SelDates, primaryDocument : {<<>>}]

SelArgs ==
    [forms : {{<<"k">>}, {<<"K">>, <<"q">>}},
     include_amendments : BOOLEAN,
     max_filings : {-1, 0, 1, 2}]

InitSelect ==
    /\ max_retries = 1
    /\ remote = <<>>
    /\ fs = <<>>
    /\ netlog = <<>>
    /\ wlog = <<>>
    /\ call = [url |-> <<>>, path |-> <<>>, ok_404 |-> TRUE]
    /\ outcome = [end |-> "none", status |-> 0]
    /\ pc = "select"
    /\ args \in SelArgs
    /\ filings \in SeqsUpTo(SelRecords, MaxSel)
    /\ filtered = <<>>
    /\ selected = <<>>
    /\ idx = 1
    /\ progress = <<>>
    /\ total_saved = 0
    /\ run = 1
    /\ fs1 = <<>>
    /\ basename_args = [form |-> <<>>, date_str |-> <<>>, ext |-> <<>>]
    /\ basename = <<>>
    /\ submissions = [recent |-> <<>>, files |-> <<>>]
    /\ yielded = <<>>
    /\ chunk_i = 1
    /\ workers = <<>>

NextSelect == MainSelect

SpecSelect == InitSelect /\ [][NextSelect]_vars

-----------------------------------------------------------------------------
(* Claims about the selection (SpecSelect) *)

\* The number of times x occurs in the list s
Count(s, x) == Cardinality({i \in DOMAIN s : s[i] = x})

\* The category is in the expanded wanted set: it is, case-normalized, a
\* case-normalized wanted label, or, with include_amendments, such a label
\* with "/A" appended.
InExpandedSet(form) ==
    \E w \in args.forms :
        \/ Upper(form) = Upper(w)
        \/ args.include_amendments /\ Upper(form) = Upper(w) \o <<"/", "A">>

\* C8: a record is selected by the filter if and only if its
\* case-normalized category is in the expanded wanted set: every wanted
\* record is kept as often as it was enumerated, no other record is kept.
C8_SelectedIffWanted ==
    pc = "loop" =>
        \A r \in Range(filings) \cup Range(filtered) :
            Count(filtered, r) = IF InExpandedSet(r.form) THEN Count(filings, r) ELSE 0

\* C8 witness: wanted = {k} with amendments over records K, K/A, Q selected
\* the K and the K/A record and not the Q record.
C8_Witness ==
    /\ pc = "loop"
    /\ args.forms = {<<"k">>}
    /\ args.include_amendments
    /\ Len(filings) = 3
    /\ {filings[i].form : i \in 1..3} = {<<"K">>, <<"K", "/", "A">>, <<"Q">>}
    /\ {filtered[i].form : i \in DOMAIN filtered} = {<<"K">>, <<"K", "/", "A">>}
    /\ Len(filtered) = 2

\* t is s put in the order p (a permutation of s's indices), ascending by
\* filed-on date, records with equal dates in the order they have in s.
IsStableSortBy(p, s, t) ==
    /\ t = [i \in DOMAIN s |-> s[p[i]]]
    /\ \A i, j \in DOMAIN s :
           i < j => /\ ~StrLess(t[j].filingDate, t[i].filingDate)
                    /\ (t[i].filingDate = t[j].filingDate => p[i] < p[j])

\* C9 as stated: the list handed to the download loop is a permutation of
\* the filtered records, ascending by filed-on date and stable.
C9_AsStated ==
    pc = "loop" =>
        \E p \in Permutations(DOMAIN filtered) : IsStableSortBy(p, filtered, selected)

\* C9 amended: the list handed to the download loop is the filtered records
\* sorted ascending by filed-on date (string order), equal dates in input
\* order, and then cut to its first max_filings records when max_filings > 0;
\* it is a permutation of the filtered records when no cut applies.
C9_SortedStablePrefix ==
    pc = "loop" =>
        \E p \in Permutations(DOMAIN filtered) :
            LET t == [i \in DOMAIN filtered |-> filtered[p[i]]]
                n == IF args.max_filings > 0
                     THEN Min(args.max_filings, Len(filtered))
                     ELSE Len(filtered)
            IN  /\ IsStableSortBy(p, filtered, t)
                /\ selected = SubSeq(t, 1, n)

\* C9 witness: three records were selected, the sort moved a record, and two
\* different records with the same date kept their input order.
C9_Witness ==
    /\ pc = "loop"
    /\ Len(filtered) = 3
    /\ Len(selected) = 3
    /\ selected # filtered
    /\ \E i, j \in 1..3 :
           /\ i < j
           /\ filtered[i].filingDate = filtered[j].filingDate
           /\ filtered[i] # filtered[j]
           /\ \E a, b \in 1..3 : a < b /\ selected[a] = filtered[i] /\ selected[b] = filtered[j]

-----------------------------------------------------------------------------
(* readable_basename and download_one_filing *)

\* readable_basename(form, date_str, ext)
ReadableBasename(form, date_str, ext) ==
    LET safe_form == ReplaceChar(Sanitize(form), "/", "_")
        safe_date == Sanitize(date_str)
        dotted == IF ext # <<>> /\ ext[1] = "." THEN ext ELSE <<".">> \o ext
    IN  safe_form \o <<"_">> \o safe_date \o dotted

\* SEC_ARCHIVES_BASE, shortened
SEC_ARCHIVES_BASE == <<"E">>

\* The cik resolved from the ticker, the ticker and args.outdir of the run
Cik == <<"7">>

Ticker == <<"c">>

Outdir == <<"D">>

\* base of download_one_filing
ArchiveBase(filing) ==
    SEC_ARCHIVES_BASE \o <<"/">> \o StripLeadingZeros(Cik) \o <<"/">>
        \o RemoveChar(filing.accessionNumber, "-") \o <<"/">>

\* ticker_dir of download_one_filing
TickerDir == PathJoin(Outdir, Upper(Ticker))

TxtUrl(filing) ==
    UrlJoin(ArchiveBase(filing), RemoveChar(filing.accessionNumber, "-") \o <<".", "t", "x", "t">>)

TxtPath(filing) ==
    PathJoin(TickerDir, ReadableBasename(filing.form, filing.filingDate, <<"t", "x", "t">>))

PrimUrl(filing) == UrlJoin(ArchiveBase(filing), filing.primaryDocument)

\* the extension of the primary document's sanitized name, "htm" without one
PrimExt(filing) ==
    LET parts == RPartition(Sanitize(filing.primaryDocument), ".") IN
    IF parts.sep # <<>> THEN parts.tail ELSE <<"h", "t", "m">>

PrimPath(filing) ==
    PathJoin(TickerDir, ReadableBasename(filing.form, filing.filingDate, PrimExt(filing)))

\* if os.path.exists(path): saved.append(path)
SavedIfExists(fsv, path) == IF path \in DOMAIN fsv THEN <<path>> ELSE <<>>

\* download_one_filing on file system fsv: the submission text, then the
\* primary document when the filing names one.  An exception of the first
\* fetch leaves the function before the second.
DownloadOneFiling(fsv, filing) ==
    LET f1 == Fetch(fsv, TxtUrl(filing), TxtPath(filing), TRUE) IN
    IF f1.end = "raise"
    THEN [fs |-> f1.fs, gets |-> f1.gets, writes |-> f1.writes, end |-> "raise",
          status |-> f1.status, saved |-> <<>>]
    ELSE LET saved1 == SavedIfExists(f1.fs, TxtPath(filing)) IN
         IF filing.primaryDocument = <<>>
         THEN [fs |-> f1.fs, gets |-> f1.gets, writes |-> f1.writes, end |-> "return",
               status |-> f1.status, saved |-> saved1]
         ELSE LET f2 == Fetch(f1.fs, PrimUrl(filing), PrimPath(filing), TRUE) IN
              IF f2.end = "raise"
              THEN [fs |-> f2.fs, gets |-> f1.gets \o f2.gets,
                    writes |-> f1.writes \o f2.writes, end |-> "raise",
                    status |-> f2.status, saved |-> <<>>]
              ELSE [fs |-> f2.fs, gets |-> f1.gets \o f2.gets,
                    writes |-> f1.writes \o f2.writes, end |-> "return",
                    status |-> f2.status,
                    saved |-> saved1 \o SavedIfExists(f2.fs, PrimPath(filing))]

-----------------------------------------------------------------------------
(* SpecName: one call of readable_basename.  The form, the date and the    *)
(* extension are drawn in the initial state.                                *)

\* The characters of the drawn forms: inside the class [A-Za-z0-9._-]
\* (a letter, a digit, the hyphen, the underscore) and outside it.
NameAlphabet == {"K", "a", "1", "-", "_", "/", " "}

\* form: every string up to MaxFormLen characters, and the amended annual
\* report
NameForms ==
    SeqsUpTo(NameAlphabet, MaxFormLen) \cup {<<"1", "0", "-", "K", "/", "A">>}

\* date_str: an ISO date, and dates with one and with two separators outside
\* the class
NameDates ==
    {<<"2", "0", "2", "3", "-", "0", "6", "-", "0", "3">>,
     <<"0", "6", "/", "0", "3">>,
     <<"0", "6", ",", " ", "0", "3">>}

\* ext: as download_one_filing passes it (no dot), with a dot, and empty
NameExts == {<<"t", "x", "t">>, <<".", "h", "t", "m">>, <<>>}

InitName ==
    /\ basename_args \in [form : NameForms, date_str : NameDates, ext : NameExts]
    /\ basename = <<>>
    /\ pc = "name"
    /\ max_retries = 1
    /\ remote = <<>>
    /\ fs = <<>>
    /\ netlog = <<>>
    /\ wlog = <<>>
    /\ call = [url |-> <<>>, path |-> <<>>, ok_404 |-> TRUE]
    /\ outcome = [end |-> "none", status |-> 0]
    /\ args = [forms |-> {}, include_amendments |-> FALSE, max_filings |-> 0]
    /\ filings = <<>>
    /\ filtered = <<>>
    /\ selected = <<>>
    /\ idx = 1
    /\ progress = <<>>
    /\ total_saved = 0
    /\ run = 1
    /\ fs1 = <<>>
    /\ submissions = [recent |-> <<>>, files |-> <<>>]
    /\ yielded = <<>>
    /\ chunk_i = 1
    /\ workers = <<>>

\* The call itself.
BasenameCall ==
    /\ pc = "name"
    /\ basename' = ReadableBasename(basename_args.form, basename_args.date_str,
                                    basename_args.ext)
    /\ pc' = "named"
    /\ UNCHANGED basename_args
    /\ UNCHANGED fetchVars
    /\ UNCHANGED selectVars
    /\ UNCHANGED loopVars
    /\ UNCHANGED runVars
    /\ UNCHANGED enumVars
    /\ UNCHANGED workers

NextName == BasenameCall

SpecName == InitName /\ [][NextName]_vars

-----------------------------------------------------------------------------
(* Claims about readable_basename (SpecName) *)

\* The string with every character outside [A-Za-z0-9._-] replaced by one
\* underscore, position by position.
UnderscorePerChar(str) ==
    [i \in DOMAIN str |-> IF str[i] \in SafeChars THEN str[i] ELSE "_"]

\* The positions of the string that open something: a character of the
\* class, or the first character of a run outside it.
RunStarts(str) ==
    {i \in DOMAIN str : str[i] \in SafeChars \/ i = 1 \/ str[i - 1] \in SafeChars}

\* The string with every maximal run of characters outside the class
\* replaced by one underscore: UnderscorePerChar at the positions RunStarts,
\* in order.
UnderscorePerRun(str) ==
    LET keep == RunStarts(str)
        nth(k) == CHOOSE i \in keep : Cardinality({j \in keep : j <= i}) = k
    IN  [k \in 1..Cardinality(keep) |-> UnderscorePerChar(str)[nth(k)]]

\* The extension with its dot
Dotted(ext) == IF Len(ext) > 0 /\ Head(ext) = "." THEN ext ELSE <<".">> \o ext

\* No two neighbouring characters of the string are outside the class.
NoUnsafeRun(str) ==
    \A i \in 1..(Len(str) - 1) : str[i] \in SafeChars \/ str[i + 1] \in SafeChars

\* C12 as stated: the name is the form and the date, one underscore per
\* character outside the class, joined by an underscore, then the extension.
C12_AsStated ==
    pc = "named" =>
        basename = UnderscorePerChar(basename_args.form) \o <<"_">>
                       \o UnderscorePerChar(basename_args.date_str)
                       \o Dotted(basename_args.ext)

\* C12 amended: the name is the form and the date, one underscore per
\* maximal run of characters outside the class and every other character
\* unchanged, joined by an underscore, then the extension; that is one
\* underscore per replaced character when no two such characters are
\* neighbours; and 10-K/A filed on 2023-06-03 gives 10-K_A_2023-06-03.txt.
C12_UnderscorePerRun ==
    pc = "named" =>
        /\ basename = UnderscorePerRun(basename_args.form) \o <<"_">>
                          \o UnderscorePerRun(basename_args.date_str)
                          \o Dotted(basename_args.ext)
        /\ (NoUnsafeRun(basename_args.form) /\ NoUnsafeRun(basename_args.date_str))
               => basename = UnderscorePerChar(basename_args.form) \o <<"_">>
                                 \o UnderscorePerChar(basename_args.date_str)
                                 \o Dotted(basename_args.ext)
        /\ (/\ basename_args.form = <<"1", "0", "-", "K", "/", "A">>
            /\ basename_args.date_str = <<"2", "0", "2", "3", "-", "0", "6", "-", "0", "3">>
            /\ basename_args.ext = <<"t", "x", "t">>)
               => basename = <<"1", "0", "-", "K", "_", "A", "_",
                               "2", "0", "2", "3", "-", "0", "6", "-", "0", "3",
                               ".", "t", "x", "t">>

\* C12 witness: the name of 10-K/A filed on 2023-06-03 was built, with the
\* extension txt.
C12_Witness ==
    /\ pc = "named"
    /\ basename_args.form = <<"1", "0", "-", "K", "/", "A">>
    /\ basename_args.date_str = <<"2", "0", "2", "3", "-", "0", "6", "-", "0", "3">>
    /\ basename_args.ext = <<"t", "x", "t">>
    /\ basename = <<"1", "0", "-", "K", "_", "A", "_",
                    "2", "0", "2", "3", "-", "0", "6", "-", "0", "3", ".", "t", "x", "t">>

-----------------------------------------------------------------------------
(* main: the download loop *)

\* A variant of the loop that would catch the exception per record and go on
\* (not what main does); kept to test the sensitivity of the loop's properties.
ExceptionCaughtPerRecord(end) == FALSE

\* An exception of download_one_filing leaves the loop and main: the loop
\* body of main has no try/except.
LeavesLoop(end) == end = "raise"

\* One pass of the loop body of main:
\*   print(f"[i] Downloading ..."); _, saved = download_one_filing(...);
\*   total_saved += len(saved)
DownloadNext ==
    /\ pc = "loop"
    /\ idx <= Len(selected)
    /\ LET d == DownloadOneFiling(fs, selected[idx]) IN
         /\ progress' = Append(progress, selected[idx])
         /\ fs' = d.fs
         /\ netlog' = netlog \o d.gets
         /\ wlog' = wlog \o d.writes
         /\ outcome' = [end |-> d.end, status |-> d.status]
         /\ IF LeavesLoop(d.end)
            THEN pc' = "raised" /\ UNCHANGED <<idx, total_saved>>
            ELSE /\ pc' = "loop"
                 /\ idx' = idx + 1
                 /\ total_saved' = total_saved + Len(d.saved)
    /\ UNCHANGED <<max_retries, remote, call>>
    /\ UNCHANGED selectVars
    /\ UNCHANGED runVars
    /\ UNCHANGED nameVars
    /\ UNCHANGED enumVars
    /\ UNCHANGED workers

\* The loop is over: main prints its summary and returns.
MainDone ==
    /\ pc = "loop"
    /\ idx > Len(selected)
    /\ pc' = "done"
    /\ UNCHANGED fetchVars
    /\ UNCHANGED selectVars
    /\ UNCHANGED loopVars
    /\ UNCHANGED runVars
    /\ UNCHANGED nameVars
    /\ UNCHANGED enumVars
    /\ UNCHANGED workers

\* The program is run again with the same command line against the same
\* destination root; the remote serves the same history and answers every
\* url as it did in the first run.
Rerun ==
    /\ pc \in {"done", "raised"}
    /\ run = 1
    /\ run' = 2
    /\ fs1' = fs
    /\ pc' = "select"
    /\ netlog' = <<>>
    /\ wlog' = <<>>
    /\ outcome' = [end |-> "none", status |-> 0]
    /\ filtered' = <<>>
    /\ selected' = <<>>
    /\ idx' = 1
    /\ progress' = <<>>
    /\ total_saved' = 0
    /\ UNCHANGED <<max_retries, remote, fs, call, args, filings>>
    /\ UNCHANGED enumVars
    /\ UNCHANGED nameVars
    /\ UNCHANGED workers

-----------------------------------------------------------------------------
(* Spec: main from the enumerated filings on, run twice.                   *)

MainForms == {<<"K">>}

MainDates == {<<"0", "2">>, <<"1", "0">>}

\* Three filings of the archive: one with an HTML primary document, one
\* without a primary document, one whose primary document is a .txt file.
MainAccessions ==
    {[accessionNumber |-> <<"a", "-", "1">>, primaryDocument |-> <<"d", ".", "h", "t", "m">>],
     [accessionNumber |-> <<"a", "-", "2">>, primaryDocument |-> <<>>],
     [accessionNumber |-> <<"a", "-", "3">>, primaryDocument |-> <<"d", ".", "t", "x", "t">>]}

\* The records the history may hold: wanted ones, and one of another form.
MainRecords ==
    {[form |-> f, accessionNumber |-> a.accessionNumber, filingDate |-> d,
      primaryDocument |-> a.primaryDocument] :
        f \in MainForms, d \in MainDates, a \in MainAccessions}
    \cup {[form |-> <<"Q">>, accessionNumber |-> <<"a", "-", "1">>,
           filingDate |-> <<"0", "2">>, primaryDocument |-> <<>>]}

\* What the archive answers for one url: a body (possibly empty), not
\* found, a status that is retried until the budget is spent, or a status
\* that is not retried.
MainAnswers ==
    {[script |-> <<200>>, content |-> <<"x">>],
     [script |-> <<200>>, content |-> <<>>],
     [script |-> <<404>>, content |-> <<>>],
     [script |-> <<503>>, content |-> <<>>]}

\* The archive urls of a list of filings
UrlsOf(fl) ==
    {TxtUrl(fl[i]) : i \in DOMAIN fl}
        \cup {PrimUrl(fl[i]) : i \in {j \in DOMAIN fl : fl[j].primaryDocument # <<>>}}

Init ==
    /\ max_retries = 1
    /\ filings \in SeqsUpTo(MainRecords, MaxFilings)
    /\ remote \in [UrlsOf(filings) -> MainAnswers]
    /\ args \in [forms : {{<<"k">>}}, include_amendments : {FALSE}, max_filings : {0, 1}]
    /\ fs = <<>>
    /\ netlog = <<>>
    /\ wlog = <<>>
    /\ call = [url |-> <<>>, path |-> <<>>, ok_404 |-> TRUE]
    /\ outcome = [end |-> "none", status |-> 0]
    /\ pc = "select"
    /\ filtered = <<>>
    /\ selected = <<>>
    /\ idx = 1
    /\ progress = <<>>
    /\ total_saved = 0
    /\ run = 1
    /\ fs1 = <<>>
    /\ basename_args = [form |-> <<>>, date_str |-> <<>>, ext |-> <<>>]
    /\ basename = <<>>
    /\ submissions = [recent |-> <<>>, files |-> <<>>]
    /\ yielded = <<>>
    /\ chunk_i = 1
    /\ workers = <<>>

Next == MainSelect \/ DownloadNext \/ MainDone \/ Rerun

Spec == Init /\ [][Next]_vars

-----------------------------------------------------------------------------
(* Claims about whole runs of main (Spec) *)

\* The run has ended: main returned, or an exception left it.
RunEnded == pc \in {"done", "raised"}

\* The path exists and is non-empty in file system fsv.
NonEmptyIn(fsv, path) == path \in DOMAIN fsv /\ Len(fsv[path]) > 0

\* C2: a second run against the same destination root, with the same
\* history, selection and archive answers, ends with the same set of files
\* with unchanged contents, and at no point writes a file that was present
\* and non-empty after the first run.
C2_SecondRunIdempotent ==
    run = 2 =>
        /\ \A i \in DOMAIN wlog : ~NonEmptyIn(fs1, wlog[i])
        /\ \A p \in DOMAIN fs1 : NonEmptyIn(fs1, p) => (p \in DOMAIN fs /\ fs[p] = fs1[p])
        /\ RunEnded => fs = fs1

\* C2 witness: the second run went through two filings whose files the
\* first run had written, and requested and wrote nothing.
C2_Witness ==
    /\ run = 2
    /\ pc = "done"
    /\ Len(progress) = 2
    /\ Cardinality({p \in DOMAIN fs1 : Len(fs1[p]) > 0}) >= 2
    /\ netlog = <<>>
    /\ wlog = <<>>
    /\ fs = fs1

\* C5 (the claim): a fetch failure on one selected record is caught for
\* that record only, so when the run ends every selected record has been
\* attempted.
C5_EveryRecordAttempted ==
    RunEnded => progress = selected

\* The paths opened for writing by the step in hand, in order.
NewWrites == SubSeq(wlog', Len(wlog) + 1, Len(wlog'))

\* C11 (the claim): the destination is append-only: every write of a run
\* creates a file at a path where no file existed, empty or not.
C11_AppendOnly ==
    [][\A i \in DOMAIN NewWrites : NewWrites[i] \notin DOMAIN fs]_vars

\* C11 amended: no step of a run removes a file; a file that is non-empty
\* before a step (written earlier in the run or left by the run before) has
\* the same content after it and is not opened for writing; and when one
\* filing's two fetches write the same path, the first of them left it
\* empty.  Only absent and empty paths are ever written.
C11_NonEmptyNeverRewritten ==
    [][/\ \A p \in DOMAIN fs :
              /\ p \in DOMAIN fs'
              /\ (Len(fs[p]) > 0 => fs'[p] = fs[p])
       /\ \A i \in DOMAIN NewWrites : ~NonEmptyIn(fs, NewWrites[i])
       /\ ((Len(NewWrites) = 2 /\ NewWrites[1] = NewWrites[2])
              => remote[TxtUrl(selected[idx])].content = <<>>)]_vars

\* C11 witness: two different filings of the same form and date were
\* downloaded in one run; the first wrote the submission text, and every
\* later fetch of that path (three of them) met the file and wrote nothing.
C11_Witness ==
    /\ run = 1
    /\ pc = "done"
    /\ Len(progress) = 2
    /\ progress[1] # progress[2]
    /\ TxtPath(progress[1]) = TxtPath(progress[2])
    /\ progress[2].primaryDocument # <<>>
    /\ PrimPath(progress[2]) = TxtPath(progress[2])
    /\ remote[TxtUrl(progress[2])].script = <<200>>
    /\ remote[TxtUrl(progress[2])].content # <<>>
    /\ NonEmptyIn(fs, TxtPath(progress[1]))
    /\ wlog = <<TxtPath(progress[1])>>

\* The urls the records of fl are fetched from, in the order of the claim:
\* record by record, the submission text (odd places) before the primary
\* document (even places; the empty string for a record without one).
AttemptUrls(fl) ==
    [k \in 1..(2 * Len(fl)) |->
        IF k % 2 = 1 THEN TxtUrl(fl[(k + 1) \div 2])
        ELSE IF fl[k \div 2].primaryDocument # <<>> THEN PrimUrl(fl[k \div 2])
        ELSE <<>>]

\* The destination paths of the records of fl, in the same order.
AttemptPaths(fl) ==
    [k \in 1..(2 * Len(fl)) |->
        IF k % 2 = 1 THEN TxtPath(fl[(k + 1) \div 2])
        ELSE IF fl[k \div 2].primaryDocument # <<>> THEN PrimPath(fl[k \div 2])
        ELSE <<>>]

\* log[i..] goes through expected[e..] in order.
RECURSIVE InOrderFrom(_, _, _, _)
InOrderFrom(log, expected, i, e) ==
    IF i > Len(log) THEN TRUE
    ELSE IF e > Len(expected) THEN FALSE
    ELSE IF log[i] = expected[e] THEN InOrderFrom(log, expected, i + 1, e)
    ELSE InOrderFrom(log, expected, i, e + 1)

\* The log goes through the expected entries in order: it is some entries
\* of expected[1] (none, one or several), then some of expected[2], and so
\* on.
InOrder(log, expected) == InOrderFrom(log, expected, 1, 1)

\* After the step in hand: the records attempted so far are a prefix of the
\* sorted selection, by ascending date; the requests and the writes go
\* through them in order, the submission text before the primary document;
\* when a fetch has raised, the record in hand is the last one attempted;
\* and the files on disk are those of the records attempted (and, in a
\* second run, of the first run).
AttemptOrderOk ==
    /\ Len(progress') <= Len(selected')
    /\ progress' = SubSeq(selected', 1, Len(progress'))
    /\ \A i, j \in DOMAIN progress' :
           i < j => ~StrLess(progress'[j].filingDate, progress'[i].filingDate)
    /\ InOrder(netlog', AttemptUrls(progress'))
    /\ InOrder(wlog', AttemptPaths(progress'))
    /\ outcome'.end = "raise" => (pc' = "raised" /\ Len(progress') = idx')
    /\ DOMAIN fs' \subseteq (DOMAIN fs1' \cup Range(AttemptPaths(progress')))

\* Once a fetch has raised, the run makes no further step: the only step
\* left is the start of another run.
RaiseEndsRun ==
    outcome.end = "raise" => (run' # run /\ netlog' = <<>> /\ progress' = <<>>)

\* The step in hand is the download of a record one of whose fetches raises.
RaiseStep == outcome.end # "raise" /\ outcome'.end = "raise"

\* The fetch that raised is the last one requested.
FailingUrl == netlog'[Len(netlog')]

\* In a RaiseStep, the failing fetch opens nothing for writing and leaves
\* the disk as it found it: either the submission text's fetch failed and
\* the step changed nothing, or the primary document's fetch failed and the
\* step did what the submission text's fetch alone does.
FailingFetchWritesNothing ==
    LET rec == selected[idx] IN
    /\ Len(netlog') > Len(netlog)
    /\ outcome'.status >= 400
    /\ FailingUrl \in Range(AttemptUrls(<<rec>>))
    /\ FailingUrl = TxtUrl(rec) => (fs' = fs /\ NewWrites = <<>>)
    /\ FailingUrl # TxtUrl(rec) =>
           /\ NewWrites \in {<<>>, <<TxtPath(rec)>>}
           /\ NewWrites = <<>> => fs' = fs
           /\ NewWrites # <<>> =>
                  /\ fs'[TxtPath(rec)] = remote[TxtUrl(rec)].content
                  /\ DOMAIN fs' = DOMAIN fs \cup {TxtPath(rec)}
                  /\ \A p \in DOMAIN fs : p # TxtPath(rec) => fs'[p] = fs[p]

\* In a RaiseStep, every file on disk before it (in a first run: the files
\* written for the records before the failing one) is still there with the
\* same content.
EarlierFilesUnchanged ==
    \A p \in DOMAIN fs : p \in DOMAIN fs' /\ fs'[p] = fs[p]

\* The same, for the files that were not empty; an empty one is still there.
EarlierNonEmptyFilesUnchanged ==
    \A p \in DOMAIN fs : p \in DOMAIN fs' /\ (Len(fs[p]) > 0 => fs'[p] = fs[p])

-----------------------------------------------------------------------------
(* iter_filings_from_submissions and _iter_filings_from_chunk             *)
(*                                                                         *)
(* A JSON value is a record with a type: "dict" (map: key -> value),       *)
(* "list" (items), "str", "null", or "invalid" for a body that is not      *)
(* JSON.  A filing record is the map of a dict with the four keys.         *)

RequiredKeys == {"form", "accessionNumber", "filingDate", "primaryDocument"}

\* min(len(forms), len(accs), len(dates), len(prims))
RecentCount(recent) ==
    Min(Min(Len(recent.form), Len(recent.accessionNumber)),
        Min(Len(recent.filingDate), Len(recent.primaryDocument)))

\* The records the loop over the recent page yields
RecentRecords(recent) ==
    [i \in 1..RecentCount(recent) |->
        [form |-> recent.form[i], accessionNumber |-> recent.accessionNumber[i],
         filingDate |-> recent.filingDate[i], primaryDocument |-> recent.primaryDocument[i]]]

\* str.endswith(suffix)
EndsWith(str, suffix) ==
    /\ Len(str) >= Len(suffix)
    /\ SubSeq(str, Len(str) - Len(suffix) + 1, Len(str)) = suffix

NameOkSuffixTypo(chunk) ==
    /\ "name" \in DOMAIN chunk
    /\ chunk.name # <<>>
    /\ EndsWith(chunk.name, <<".", "j", "s", "n">>)

\* name = chunk.get("name"); not (not name or not name.endswith(".json"))
NameOk(chunk) ==
    /\ "name" \in DOMAIN chunk
    /\ chunk.name # <<>>
    /\ EndsWith(chunk.name, <<".", "j", "s", "o", "n">>)

\* "https://data.sec.gov/submissions/", shortened
SubmissionsBase == <<"S", "/">>

\* older_url
OlderUrl(chunk) == UrlJoin(SubmissionsBase, chunk.name)

\* isinstance(f, dict) and all(k in f for k in (...))
IsRecordShaped(f) == f.type = "dict" /\ RequiredKeys \subseteq DOMAIN f.map

\* What iterating `filings` gives, or that it raises TypeError: a list
\* gives its items, a dict its keys and a str its characters (strings, so
\* never record-shaped); None cannot be iterated.
IterItems(v) ==
    CASE v.type = "list" -> [raises |-> FALSE, items |-> v.items]
      [] v.type = "dict" -> [raises |-> FALSE, items |-> <<[type |-> "str"]>>]
      [] v.type = "str"  -> [raises |-> FALSE, items |-> <<[type |-> "str"]>>]
      [] OTHER           -> [raises |-> TRUE, items |-> <<>>]

\* _iter_filings_from_chunk(url): the records it yields and whether an
\* exception leaves it: raise_for_status on a 4xx/5xx answer, r.json() on a
\* body that is not JSON, data.get on a body that is not an object
\* (AttributeError), the for loop on a `filings` that cannot be iterated.
IterFilingsFromChunk(url) ==
    LET r == SessionGet(url)
        gets == Repeat(url, r.requests)
        data == remote[url].content
    IN  IF RaisesForStatus(r.status_code) \/ data.type # "dict"
        THEN [gets |-> gets, raises |-> TRUE, yields |-> <<>>]
        ELSE LET it == IF "filings" \in DOMAIN data.map
                       THEN IterItems(data.map.filings)
                       ELSE [raises |-> FALSE, items |-> <<>>]
                 good == SelectSeq(it.items, IsRecordShaped)
             IN  [gets |-> gets, raises |-> it.raises,
                  yields |-> [i \in DOMAIN good |-> good[i].map]]

\* iter_filings_from_submissions, the loop over the recent page
EnumRecent ==
    /\ pc = "enum_recent"
    /\ yielded' = yielded \o RecentRecords(submissions.recent)
    /\ chunk_i' = 1
    /\ pc' = "enum_files"
    /\ UNCHANGED <<submissions, filings>>
    /\ UNCHANGED <<args, filtered, selected>>
    /\ UNCHANGED fetchVars
    /\ UNCHANGED loopVars
    /\ UNCHANGED runVars
    /\ UNCHANGED nameVars
    /\ UNCHANGED workers

\* iter_filings_from_submissions, one pass of the loop over the manifest
EnumChunk ==
    /\ pc = "enum_files"
    /\ chunk_i <= Len(submissions.files)
    /\ LET chunk == submissions.files[chunk_i] IN
         IF ~NameOk(chunk)
         THEN /\ chunk_i' = chunk_i + 1
              /\ UNCHANGED <<yielded, netlog, pc>>
         ELSE LET c == IterFilingsFromChunk(OlderUrl(chunk)) IN
              /\ netlog' = netlog \o c.gets
              /\ yielded' = yielded \o c.yields
              /\ IF c.raises
                 THEN pc' = "raised" /\ UNCHANGED chunk_i
                 ELSE pc' = "enum_files" /\ chunk_i' = chunk_i + 1
    /\ UNCHANGED <<submissions, filings>>
    /\ UNCHANGED <<args, filtered, selected>>
    /\ UNCHANGED <<max_retries, remote, fs, wlog, call, outcome>>
    /\ UNCHANGED loopVars
    /\ UNCHANGED runVars
    /\ UNCHANGED nameVars
    /\ UNCHANGED workers

\* The generator is exhausted: filings = list(iter_filings_from_submissions(...))
EnumDone ==
    /\ pc = "enum_files"
    /\ chunk_i > Len(submissions.files)
    /\ filings' = yielded
    /\ pc' = "enumerated"
    /\ UNCHANGED <<submissions, yielded, chunk_i>>
    /\ UNCHANGED <<args, filtered, selected>>
    /\ UNCHANGED fetchVars
    /\ UNCHANGED loopVars
    /\ UNCHANGED runVars
    /\ UNCHANGED nameVars
    /\ UNCHANGED workers

-----------------------------------------------------------------------------
(* SpecEnum: the enumeration over recent pages with aligned or with one    *)
(* short array, and manifests of overflow pages of every shape.            *)

Digit(i) == Digits[i + 1]

\* The recent page with n records, the array named short (if any) one
\* element shorter.
RecentPage(n, short) ==
    LET len(k) == IF k = short THEN n - 1 ELSE n IN
    [form            |-> [i \in 1..len("form") |-> <<"K">>],
     accessionNumber |-> [i \in 1..len("accessionNumber") |-> <<"r", "-", Digit(i)>>],
     filingDate      |-> [i \in 1..len("filingDate") |-> <<"0", Digit(i)>>],
     primaryDocument |-> [i \in 1..len("primaryDocument") |-> <<"d", Digit(i)>>]]

RecentPages ==
    {RecentPage(n, "") : n \in 0..MaxRecent}
        \cup {RecentPage(n, k) : n \in 1..MaxRecent, k \in RequiredKeys}

\* The j-th record of overflow page i
PageRecord(i, j) ==
    [form |-> <<"K">>, accessionNumber |-> <<"p", Digit(i), "-", Digit(j)>>,
     filingDate |-> <<"0", Digit(j)>>, primaryDocument |-> <<>>]

JDict(map) == [type |-> "dict", map |-> map]

JList(items) == [type |-> "list", items |-> items]

\* A record of page i without its primaryDocument key
ShortRecord(i, j) ==
    [form |-> <<"K">>, accessionNumber |-> <<"p", Digit(i), "-", Digit(j)>>,
     filingDate |-> <<"0", Digit(j)>>]

\* The pages of the expected shape: {"filings": [record, ...]}
WellFormedBodies(i) ==
    {JDict([filings |-> JList(<<>>)]),
     JDict([filings |-> JList(<<JDict(PageRecord(i, 1))>>)]),
     JDict([filings |-> JList(<<JDict(PageRecord(i, 1)), JDict(PageRecord(i, 2))>>)])}

\* Pages of other shapes: a record without a key or a non-object among the
\* records, no "filings" key (the parallel-array layout), "filings" an
\* object, "filings" null, a top-level array, a body that is not JSON.
MalformedBodies(i) ==
    {JDict([filings |-> JList(<<JDict(PageRecord(i, 1)), JDict(ShortRecord(i, 2))>>)]),
     JDict([filings |-> JList(<<[type |-> "str"], JDict(PageRecord(i, 2))>>)]),
     JDict([form |-> JList(<<>>)]),
     JDict([filings |-> JDict([recent |-> JList(<<>>)])]),
     JDict([filings |-> [type |-> "null"]]),
     JList(<<JDict(PageRecord(i, 1))>>),
     [type |-> "invalid"]}

\* What the remote answers for overflow page i
PageAnswers(i) ==
    {[script |-> <<200>>, content |-> b] : b \in WellFormedBodies(i) \cup MalformedBodies(i)}
        \cup {[script |-> <<st>>, content |-> [type |-> "invalid"]] : st \in {404, 503}}

PageName(i) == <<"p", Digit(i), ".", "j", "s", "o", "n">>

\* The i-th manifest entry: the page's name, a name without the suffix, or
\* no name at all.
ManifestEntries(i) == {[name |-> PageName(i)], [name |-> <<"p", Digit(i)>>], <<>>}

InitEnum ==
    /\ max_retries = 1
    /\ \E n \in 0..MaxPages :
         /\ \E recent \in RecentPages, files \in [1..n -> UNION {ManifestEntries(i) : i \in 1..n}] :
              /\ \A i \in 1..n : files[i] \in ManifestEntries(i)
              /\ submissions = [recent |-> recent, files |-> files]
         /\ \E answers \in [1..n -> UNION {PageAnswers(i) : i \in 1..n}] :
              /\ \A i \in 1..n : answers[i] \in PageAnswers(i)
              /\ \A i \in 1..n : submissions.files[i] # [name |-> PageName(i)] =>
                     answers[i] = [script |-> <<404>>, content |-> [type |-> "invalid"]]
              /\ remote = [u \in {UrlJoin(SubmissionsBase, PageName(i)) : i \in 1..n} |->
                             answers[CHOOSE i \in 1..n : u = UrlJoin(SubmissionsBase, PageName(i))]]
    /\ fs = <<>>
    /\ netlog = <<>>
    /\ wlog = <<>>
    /\ call = [url |-> <<>>, path |-> <<>>, ok_404 |-> TRUE]
    /\ outcome = [end |-> "none", status |-> 0]
    /\ pc = "enum_recent"
    /\ args = [forms |-> {}, include_amendments |-> FALSE, max_filings |-> 0]
    /\ filings = <<>>
    /\ filtered = <<>>
    /\ selected = <<>>
    /\ idx = 1
    /\ progress = <<>>
    /\ total_saved = 0
    /\ run = 1
    /\ fs1 = <<>>
    /\ basename_args = [form |-> <<>>, date_str |-> <<>>, ext |-> <<>>]
    /\ basename = <<>>
    /\ yielded = <<>>
    /\ chunk_i = 1
    /\ workers = <<>>

NextEnum == EnumRecent \/ EnumChunk \/ EnumDone

SpecEnum == InitEnum /\ [][NextEnum]_vars

-----------------------------------------------------------------------------
(* Claims about the enumeration (SpecEnum) *)

\* The enumeration has ended: the list was built, or an exception left it.
EnumEnded == pc \in {"enumerated", "raised"}

\* The manifest entries that name an overflow page (name ending in .json)
NamedPages == {i \in DOMAIN submissions.files : submissions.files[i] = [name |-> PageName(i)]}

\* What the remote answers for the page of manifest entry i
PageOf(i) == remote[SubmissionsBase \o PageName(i)]

\* Page i is served and has the expected shape: an object holding an array
\* of record-shaped objects, each with the four fields.
WellFormedPage(i) ==
    /\ PageOf(i).script = <<200>>
    /\ PageOf(i).content \in WellFormedBodies(i)

\* The records of well-formed page i, in page order
PageRecords(i) ==
    LET items == PageOf(i).content.map.filings.items IN
    [j \in DOMAIN items |-> items[j].map]

\* The four arrays of the recent page have one length.
RecentAligned ==
    \A k \in RequiredKeys : Len(submissions.recent[k]) = Len(submissions.recent.form)

\* The first n records of the recent page, zipped by index
RecentZip(n) ==
    [i \in 1..n |-> [k \in RequiredKeys |-> submissions.recent[k][i]]]

\* The length of the shortest array of the recent page
ShortestRecent ==
    CHOOSE n \in 0..MaxRecent :
        /\ \A k \in RequiredKeys : n <= Len(submissions.recent[k])
        /\ \E k \in RequiredKeys : n = Len(submissions.recent[k])

\* The records of the named pages from entry i on, in manifest order, a page
\* that is not well-formed counting for nothing
RECURSIVE OverflowFrom(_)
OverflowFrom(i) ==
    IF i > Len(submissions.files) THEN <<>>
    ELSE (IF i \in NamedPages /\ WellFormedPage(i) THEN PageRecords(i) ELSE <<>>)
             \o OverflowFrom(i + 1)

\* C6: with N aligned recent records and every overflow page of the
\* manifest well-formed, the enumeration ends normally with exactly the N
\* recent records in index order followed by each page's records in manifest
\* order: N + M1 + M2 + ... records, none dropped, duplicated or reordered.
C6_UnionInOrder ==
    (EnumEnded /\ RecentAligned /\ \A i \in NamedPages : WellFormedPage(i))
        => /\ pc = "enumerated"
           /\ filings = RecentZip(Len(submissions.recent.form)) \o OverflowFrom(1)

\* C6 witness: two recent records and pages of two and of one record gave
\* five records.
C6_Witness ==
    /\ pc = "enumerated"
    /\ RecentAligned
    /\ Len(submissions.recent.form) = 2
    /\ NamedPages = {1, 2}
    /\ WellFormedPage(1) /\ Len(PageRecords(1)) = 2
    /\ WellFormedPage(2) /\ Len(PageRecords(2)) = 1
    /\ Len(filings) = 5

\* C7 (the claim): when every overflow page is served, a page that is not
\* of the expected shape contributes no record and does not abort the
\* enumeration: it ends normally with the recent records and the records of
\* the well-formed pages, before and after it, in manifest order.
C7_MalformedPageSkipped ==
    (EnumEnded /\ \A i \in NamedPages : PageOf(i).script = <<200>>)
        => /\ pc = "enumerated"
           /\ filings = RecentZip(ShortestRecent) \o OverflowFrom(1)

-----------------------------------------------------------------------------
(* SpecConc: the per-filing download step (download_one_filing) run by     *)
(* NumWorkers concurrent workers over one destination directory, _fetch    *)
(* taken statement by statement.  open(path, "wb") creates or truncates    *)
(* the destination itself; f.write(r.content) reaches the file in one or   *)
(* more pieces, each at the offset of the worker's own file object.  What  *)
(* download_one_filing returns (saved) is not kept.                        *)

Workers == 1..NumWorkers

\* everything the workers leave alone
notConcVars == <<max_retries, remote, pc, call, outcome, args, filings, filtered, selected,
                 idx, progress, total_saved, run, fs1, submissions, yielded, chunk_i,
                 basename_args, basename>>

\* The worker at the start of the first _fetch of download_one_filing
WorkerStart(filing) ==
    [filing |-> filing, stage |-> "txt", pc |-> "check",
     url |-> TxtUrl(filing), path |-> TxtPath(filing), body |-> <<>>, off |-> 0]

\* The worker after a _fetch that returned: on to the primary document when
\* the filing names one, or out of download_one_filing.
AfterFetch(wk) ==
    IF wk.stage = "txt" /\ wk.filing.primaryDocument # <<>>
    THEN [wk EXCEPT !.stage = "prim", !.pc = "check", !.url = PrimUrl(wk.filing),
                    !.path = PrimPath(wk.filing), !.body = <<>>, !.off = 0]
    ELSE [wk EXCEPT !.pc = "done"]

\* The bytes written at offset off of a file: the file grows as needed, a
\* gap past its end reads as zero bytes.
WriteAt(content, off, bytes) ==
    [i \in 1..Max(Len(content), off + Len(bytes)) |->
        IF i > off /\ i <= off + Len(bytes) THEN bytes[i - off]
        ELSE IF i <= Len(content) THEN content[i]
        ELSE "0"]

\* if os.path.exists(path) and os.path.getsize(path) > 0: return
WCheck(w) ==
    /\ workers[w].pc = "check"
    /\ workers' = [workers EXCEPT ![w] =
                      IF AlreadyPresent(fs, workers[w].path)
                      THEN AfterFetch(workers[w])
                      ELSE [workers[w] EXCEPT !.pc = "get"]]
    /\ UNCHANGED <<fs, netlog, wlog>>
    /\ UNCHANGED notConcVars

\* r = session.get(url, timeout=60); the 404 return; r.raise_for_status()
WGet(w) ==
    /\ workers[w].pc = "get"
    /\ LET r == SessionGet(workers[w].url) IN
         /\ netlog' = netlog \o Repeat(workers[w].url, r.requests)
         /\ workers' = [workers EXCEPT ![w] =
                IF NotFoundSkip(r.status_code, TRUE) THEN AfterFetch(workers[w])
                ELSE IF RaisesForStatus(r.status_code) THEN [workers[w] EXCEPT !.pc = "raised"]
                ELSE [workers[w] EXCEPT !.pc = "open", !.body = remote[workers[w].url].content]]
    /\ UNCHANGED <<fs, wlog>>
    /\ UNCHANGED notConcVars

\* with open(path, "wb") as f: the destination is created, or truncated
WOpen(w) ==
    /\ workers[w].pc = "open"
    /\ fs' = (workers[w].path :> <<>>) @@ fs
    /\ wlog' = Append(wlog, workers[w].path)
    /\ workers' = [workers EXCEPT ![w].pc = "write", ![w].off = 0]
    /\ UNCHANGED netlog
    /\ UNCHANGED notConcVars

\* f.write(r.content): the next piece of the body reaches the file
WWrite(w) ==
    /\ workers[w].pc = "write"
    /\ workers[w].off < Len(workers[w].body)
    /\ \E k \in 1..(Len(workers[w].body) - workers[w].off) :
         LET piece == SubSeq(workers[w].body, workers[w].off + 1, workers[w].off + k) IN
         /\ fs' = [fs EXCEPT ![workers[w].path] = WriteAt(@, workers[w].off, piece)]
         /\ workers' = [workers EXCEPT ![w].off = @ + k]
    /\ UNCHANGED <<netlog, wlog>>
    /\ UNCHANGED notConcVars

\* the end of the with block: the file is closed and _fetch returns
WClose(w) ==
    /\ workers[w].pc = "write"
    /\ workers[w].off = Len(workers[w].body)
    /\ workers' = [workers EXCEPT ![w] = AfterFetch(workers[w])]
    /\ UNCHANGED <<fs, netlog, wlog>>
    /\ UNCHANGED notConcVars

\* What the archive answers a worker: one of two two-byte bodies, not
\* found, or a status retried until the budget is spent.
ConcAnswers ==
    {[script |-> <<200>>, content |-> <<"x", "y">>],
     [script |-> <<200>>, content |-> <<"z", "w">>],
     [script |-> <<404>>, content |-> <<>>],
     [script |-> <<503>>, content |-> <<>>]}

\* The filings handed to the workers: the wanted records of the history.
ConcRecords == {r \in MainRecords : r.form \in MainForms}

InitConc ==
    /\ max_retries = 1
    /\ \E assigned \in [Workers -> ConcRecords] :
         /\ workers = [w \in Workers |-> WorkerStart(assigned[w])]
         /\ remote \in [UrlsOf(assigned) -> ConcAnswers]
    /\ fs = <<>>
    /\ netlog = <<>>
    /\ wlog = <<>>
    /\ call = [url |-> <<>>, path |-> <<>>, ok_404 |-> TRUE]
    /\ outcome = [end |-> "none", status |-> 0]
    /\ pc = "loop"
    /\ args = [forms |-> {<<"k">>}, include_amendments |-> FALSE, max_filings |-> 0]
    /\ filings = <<>>
    /\ filtered = <<>>
    /\ selected = <<>>
    /\ idx = 1
    /\ progress = <<>>
    /\ total_saved = 0
    /\ run = 1
    /\ fs1 = <<>>
    /\ basename_args = [form |-> <<>>, date_str |-> <<>>, ext |-> <<>>]
    /\ basename = <<>>
    /\ submissions = [recent |-> <<>>, files |-> <<>>]
    /\ yielded = <<>>
    /\ chunk_i = 1

NextConc == \E w \in Workers : WCheck(w) \/ WGet(w) \/ WOpen(w) \/ WWrite(w) \/ WClose(w)

SpecConc == InitConc /\ [][NextConc]_vars

-----------------------------------------------------------------------------
(* Claims about concurrent workers (SpecConc) *)

\* The (url, destination) pairs of the fetches of a filing
Targets(filing) ==
    {<<TxtUrl(filing), TxtPath(filing)>>}
        \cup (IF filing.primaryDocument # <<>>
              THEN {<<PrimUrl(filing), PrimPath(filing)>>}
              ELSE {})

\* The whole bodies the archive serves for the fetches, of any worker,
\* whose destination is path
BodiesFor(path) ==
    {remote[t[1]].content :
        t \in {u \in UNION {Targets(workers[w].filing) : w \in Workers} : u[2] = path}}

\* C10 (the claim): under concurrent workers no observer ever sees a
\* destination that exists, is non-empty and holds anything but a whole
\* response body fetched for it.
C10_NoPartialFile ==
    \A path \in DOMAIN fs : Len(fs[path]) > 0 => fs[path] \in BodiesFor(path)

=============================================================================
